---- MODULE Spec2Model ----
(***************************************************************************)
(* Model of the top-k cosine-similarity engine of                          *)
(* diploma_thesis/utils/compute_cosine_similarity.py and of its hand-off   *)
(* to the graph writer (save_similarities_to_neo4j).                       *)
(*                                                                         *)
(* Numbers.  numpy works on float64.  The model draws the document vectors *)
(* from a palette of integer vectors whose L2 norm is an integer, so that  *)
(* every quantity of lines 39-48 is an exact rational:                     *)
(*   - a normalised component is kept in units of 1/Unit,                  *)
(*   - a similarity (dot product of two normalised rows) in units of       *)
(*     1/(Unit*Unit),                                                      *)
(*   - -np.inf is NegInf, an integer below every similarity,               *)
(*   - a rounded similarity (round(x, 4)) in units of 1/10^Digits.         *)
(* Floating-point rounding of the dot product is not modelled.             *)
(*                                                                         *)
(* Equal values.  numpy leaves open how argpartition arranges equal values *)
(* and how argsort(kind='quicksort') orders them; both are deterministic   *)
(* functions of their argument in a given build.  The variable tie fixes   *)
(* one resolution for each of the two, chosen arbitrarily in Init.         *)
(*                                                                         *)
(* Python sequences are 0-based; the model keeps Python's indices and      *)
(* reads s[i] as At(s, i).                                                 *)
(***************************************************************************)
EXTENDS Integers, Sequences, FiniteSets, TLC

VARIABLES
    keys,          \* argument keys: list of document ids
    vectors,       \* argument vectors: the rows of the (n_vectors, dim) matrix
    tie,           \* how the build resolves equal values in argpartition / argsort
    k,             \* argument k
    batch_size,    \* argument batch_size
    pc,            \* position in the driver
    error,         \* the exception raised by compute_topk_similarities, or NoError
    norms,         \* local norms after np.clip (line 39-40)
    vectors_norm,  \* local vectors_norm (line 40)
    start,         \* loop variable of line 44
    results,       \* local results dict (line 42), in insertion order
    visited,       \* history: the row indices vec_idx stored at line 68, in order
    ret,           \* the value returned to the caller, None before
    top_n,         \* argument top_n of save_similarities_to_neo4j
    relationships, \* local relationships list of save_similarities_to_neo4j
    vexp,          \* magnitude of the embeddings: components are in units of 10^-vexp
    log,           \* the records handed to logger, in order
    file,          \* the artifact at DATA_DIR/topk_similarities.pkl
    data,          \* what load_similarities_from_pkl returned / the argument data
    edges,         \* the is_similar_to relationships of the graph store
    pending,       \* the batches the loop of line 183 has not sent yet
    queries,       \* number of upsert queries issued by the current emission
    total_batches, \* local total_batches (line 178)
    emit_size,     \* argument batch_size of save_similarities_to_neo4j
    topk_results,  \* what fetch_and_compute_similarities returned (line 197)
    emitted,       \* history: the data and the edges of the last completed emission
    calls,         \* history: the earlier calls of compute_topk_similarities
    store,         \* the Document nodes of the graph store: id and embedding
    origin,        \* history: the ids of the documents the rows of vectors were read from
    attempts,      \* history: the upsert queries of the current emission and how they ended
    runs           \* number of emissions started

\* the state outside compute_topk_similarities
io_vars == <<log, file, data, edges, pending, queries, total_batches,
             emit_size, topk_results, emitted, calls, store, origin,
             attempts, runs>>

vars == <<keys, vectors, tie, k, batch_size, pc, error, norms, vectors_norm,
          start, results, visited, ret, top_n, relationships, vexp, io_vars>>

-----------------------------------------------------------------------------
(* Bounds of the model *)

\* largest number of documents drawn for the free inputs
MaxN == 3

(* Program constants *)

\* np.clip(norms, a_min=1e-10, ...): the floor is 10^-EpsExp
EpsExp == 10
\* round(similarities[i], 4)
Digits == 4

\* Fixed-point unit of a normalised component: a common multiple of every
\* norm of the palette (5, 10, 13, 26).
Unit == 2 * 5 * 13

\* sims[i, start + i] = -np.inf : below every similarity (|s| <= Unit*Unit)
NegInf == -(Unit * Unit) - 1

None == "None"
NoError == [type |-> "none"]

-----------------------------------------------------------------------------
(* Python helpers *)

At(s, i) == s[i + 1]

Min(a, b) == IF a < b THEN a ELSE b

\* s[:m] for m >= 0
Take(s, m) == SubSeq(s, 1, Min(m, Len(s)))

\* s[-m:] for 0 < m <= len(s)
LastK(s, m) == SubSeq(s, Len(s) - m + 1, Len(s))

\* range(0, n): the index set of a sequence of length n
Range0(n) == 0 .. (n - 1)

RECURSIVE Pow10(_)
Pow10(e) == IF e = 0 THEN 1 ELSE 10 * Pow10(e - 1)

Abs(x) == IF x < 0 THEN -x ELSE x

-----------------------------------------------------------------------------
(* Inputs *)

\* Document embeddings (dim = 2) with an integer L2 norm: a zero vector, two
\* directions at a rational angle, and an opposite direction.
Palette == { <<0, 0>>, <<3, 4>>, <<5, 12>>, <<-4, -3>> }

\* Five documents shaped like the scenario of the specification: document 1
\* is close to document 0, documents 2 and 3 are far, document 4 is between.
Scenario == << <<5, 0>>, <<12, 5>>, <<0, 5>>, <<5, 12>>, <<4, 3>> >>

\* Three documents of norm 13 in three directions: when the components are in
\* units of 10^-TinyExp they are tiny and still all above the floor of np.clip.
Steep == << <<5, 12>>, <<12, 5>>, <<-12, -5>> >>

VectorLists ==
    UNION { [1 .. n -> Palette] : n \in 1 .. MaxN } \cup { Scenario, Steep }

\* Keys for n rows: unique ids (not equal to the row index), a list with a
\* repeated id, and lists one longer / one shorter than the matrix.
UniqueKeys(n) == [i \in 1 .. n |-> 100 + 10 * (n - i)]
KeyLists(n) ==
    { UniqueKeys(n),
      [i \in 1 .. n |-> IF i = n THEN 100 + 10 * (n - 1) ELSE 100 + 10 * (n - i)],
      UniqueKeys(n + 1),
      UniqueKeys(n - 1) }

\* The embeddings are the integer vectors times 10^-vexp: of ordinary size
\* (vexp = 0), or so small that the norms 5 of the palette fall below the
\* floor 1e-10 of np.clip while the norms 13 stay above it.
TinyExp == EpsExp + 1
Magnitudes == {0, TinyExp}
\* the tiny magnitude is drawn for the two fixed lists and for the free
\* lists shorter than MaxN
MagnitudesOf(vs) ==
    IF Len(vs) < MaxN \/ vs \in {Scenario, Steep} THEN Magnitudes ELSE {0}

\* the artifact does not exist
Missing == [exists |-> FALSE]

TiePolicies == [part : {"low_last", "high_last"}, sort : {"stable", "reverse"}]

-----------------------------------------------------------------------------
(* numpy on exact numbers *)

RECURSIVE DotFrom(_, _, _)
DotFrom(a, b, i) ==
    IF i > Len(a) THEN 0 ELSE a[i] * b[i] + DotFrom(a, b, i + 1)

\* np.dot of two rows
Dot(a, b) == DotFrom(a, b, 1)

\* np.linalg.norm of one row (exact on the palette)
Norm(v) ==
    LET s == Dot(v, v)
    IN  CHOOSE r \in 0 .. s : r * r <= s /\ (r + 1) * (r + 1) > s

\* the norm m * 10^(-e) is below the floor 10^(-EpsExp) of np.clip
BelowFloor(m, e) ==
    IF e <= EpsExp THEN m < 1 ELSE m < Pow10(e - EpsExp)

\* Faulty variant of Clip: the norm is not clamped
ClipNone(norm, e) == <<norm, e>>

\* A clipped norm is <<m, e>>, the number m * 10^(-e).
\* np.clip(norm, a_min=1e-10, a_max=None) of the norm norm * 10^(-e)
Clip(norm, e) == IF BelowFloor(norm, e) THEN <<1, EpsExp>> ELSE <<norm, e>>

\* (x * 10^(-e)) / c for a clipped norm c, in units of 1/Unit
DivideByNorm(x, e, c) ==
    IF x = 0 THEN 0
    ELSE IF c[2] >= e THEN (x * Unit * Pow10(c[2] - e)) \div c[1]
    ELSE (x * Unit) \div (c[1] * Pow10(e - c[2]))

\* Faulty variant of NormalizeRow: the row is not divided by its norm
NormalizeRowSkipped(v, e) == [d \in 1 .. Len(v) |-> v[d] * (Unit \div 26)]

\* lines 39-40 for one row of components in units of 10^(-e)
NormalizeRow(v, e) ==
    LET c == Clip(Norm(v), e)
    IN  [d \in 1 .. Len(v) |-> DivideByNorm(v[d], e, c)]

\* round(x, 4) of a similarity x (units 1/(Unit*Unit)), in units of
\* 1/10^Digits; round-half-even as Python's round
Round4(x) ==
    LET den  == Unit * Unit
        num  == Abs(x) * Pow10(Digits)
        q    == num \div den
        r    == num % den
        up   == IF 2 * r > den THEN 1
                ELSE IF 2 * r < den THEN 0
                ELSE q % 2
        mag  == q + up
    IN  IF x < 0 THEN -mag ELSE mag

\* np.argpartition(row, kth) for one row: a permutation of the column
\* indices with the kth smallest value at position kth, nothing larger
\* before it and nothing smaller after it.  The model returns the columns
\* in ascending order of value; equal values are arranged as the build
\* (policy) does: "low_last" puts the lower column later, "high_last" the
\* higher column later.
ArgPartition(row, kth, policy) ==
    LET n == Len(row)
        Before(a, b) ==
            \/ At(row, a) < At(row, b)
            \/ /\ At(row, a) = At(row, b)
               /\ IF policy.part = "low_last" THEN a > b ELSE a < b
    IN  [p \in 1 .. n |->
            CHOOSE a \in Range0(n) :
                Cardinality({b \in Range0(n) : Before(b, a)}) = p - 1]

\* np.take_along_axis(values, idx, axis=1) for one row
TakeAlong(values, idx) == [p \in 1 .. Len(idx) |-> At(values, idx[p])]

\* -x for a row of similarities
Negate(row) == [p \in 1 .. Len(row) |-> -row[p]]

\* np.argsort(x) for one row: the positions of x in ascending order of
\* value; equal values keep their order ("stable") or swap it ("reverse").
ArgSort(x, policy) ==
    LET Before(p, q) ==
            \/ At(x, p) < At(x, q)
            \/ /\ At(x, p) = At(x, q)
               /\ IF policy.sort = "stable" THEN p < q ELSE p > q
    IN  [r \in 1 .. Len(x) |->
            CHOOSE p \in Range0(Len(x)) :
                Cardinality({q \in Range0(Len(x)) : Before(q, p)}) = r - 1]

-----------------------------------------------------------------------------
(* compute_topk_similarities, lines 44-68 *)

\* s[a:b] for 0 <= a <= b <= len(s)
Slice(s, a, b) == SubSeq(s, a + 1, b)

\* line 48: np.dot(batch, vectors_norm.T), one row per batch row
Sims(batch, vn) ==
    [i \in 1 .. Len(batch) |-> [j \in 1 .. Len(vn) |-> Dot(batch[i], vn[j])]]

\* Faulty variant of SelfColumn: the in-batch index i instead of start + i
SelfColumnInBatch(st, i) == i

\* the column set to -np.inf for the batch row i of the batch starting at st
SelfColumn(st, i) == st + i

\* Faulty variant of ExcludeSelf: the self-similarity is only excluded in the
\* first batch
ExcludeSelfFirstBatch(sims, st, end) ==
    [r \in 1 .. Len(sims) |->
        IF st = 0 THEN [sims[r] EXCEPT ![r] = -(Unit * Unit) - 1] ELSE sims[r]]

\* Faulty variant of ExcludeSelf: the self-similarity is left in the row
ExcludeSelfSkipped(sims, st, end) == sims

\* lines 51-52: for i in range(end - start): sims[i, start + i] = -np.inf
ExcludeSelf(sims, st, end) ==
    [r \in 1 .. Len(sims) |->
        IF r - 1 \in Range0(end - st)
        THEN [sims[r] EXCEPT ![SelfColumn(st, r - 1) + 1] = NegInf]
        ELSE sims[r]]

\* Faulty variant of BatchTopIdx: k+1 columns are kept (the comment of line 55)
BatchTopIdxPlusOne(row, kk, policy) ==
    LastK(ArgPartition(row, -(kk + 1), policy), kk + 1)

\* Faulty variant of BatchTopIdx: the slice [:, :k] instead of [:, -k:]
BatchTopIdxFirst(row, kk, policy) == Take(ArgPartition(row, -kk, policy), kk)

\* line 56: np.argpartition(sims, -k, axis=1)[:, -k:] for one row
BatchTopIdx(row, kk, policy) == LastK(ArgPartition(row, -kk, policy), kk)

\* Faulty variant of SortedOrder: argsort without the negation (ascending)
SortedOrderAscending(top_sims, policy) == ArgSort(top_sims, policy)

\* line 60: np.argsort(-batch_top_sims, axis=1) for one row
SortedOrder(top_sims, policy) == ArgSort(Negate(top_sims), policy)

\* lines 56-62 for one row: the selected columns and their similarities,
\* sorted
TopOfRow(row, kk, policy) ==
    LET batch_top_idx  == BatchTopIdx(row, kk, policy)
        batch_top_sims == TakeAlong(row, batch_top_idx)
        sorted_order   == SortedOrder(batch_top_sims, policy)
    IN  [idx  |-> TakeAlong(batch_top_idx, sorted_order),
         sims |-> TakeAlong(batch_top_sims, sorted_order)]

\* A Python dict in insertion order: a sequence of entries with distinct key
DictKeys(d) == {d[p].key : p \in 1 .. Len(d)}
DictGet(d, key) == d[CHOOSE p \in 1 .. Len(d) : d[p].key = key]
\* d[key] = value: an existing key keeps its place
DictSet(d, key, value) ==
    IF key \in DictKeys(d)
    THEN [p \in 1 .. Len(d) |-> IF d[p].key = key THEN value ELSE d[p]]
    ELSE Append(d, value)

\* Faulty variant of Entry: the similarities are stored rounded to Digits
\* decimal places
EntryRounded(ks, top, vec_idx) ==
    [key          |-> At(ks, vec_idx),
     top_keys     |-> [p \in 1 .. Len(top.idx) |-> At(ks, top.idx[p])],
     similarities |-> [p \in 1 .. Len(top.sims) |->
                          (Round4(top.sims[p]) * Unit * Unit) \div Pow10(Digits)]]

\* lines 66-68 for the batch row i: the entry stored under keys[vec_idx]
Entry(ks, top, vec_idx) ==
    [key          |-> At(ks, vec_idx),
     top_keys     |-> [p \in 1 .. Len(top.idx) |-> At(ks, top.idx[p])],
     similarities |-> top.sims]

\* Faulty variant of BatchEnd: the batch ends one row early
BatchEndShort(st, bs, n) == Min(st + bs - 1, n)

\* line 45
BatchEnd(st, bs, n) == Min(st + bs, n)

\* Faulty variant of VecIdx: the in-batch index i
VecIdxInBatch(st, i) == i

\* the row index vec_idx of the batch row i (line 65)
VecIdx(st, i) == st + i

\* lines 65-68: for i, vec_idx in enumerate(range(start, end)), from i on
RECURSIVE StoreRows(_, _, _, _, _, _, _, _)
StoreRows(res, ks, sims, kk, policy, st, end, i) ==
    IF i >= end - st THEN res
    ELSE LET e == Entry(ks, TopOfRow(At(sims, i), kk, policy), VecIdx(st, i))
         IN  StoreRows(DictSet(res, e.key, e), ks, sims, kk, policy, st, end, i + 1)

\* lines 45-68: one iteration of the loop over batches
ProcessBatch(res, ks, vn, kk, bs, policy, st) ==
    LET end   == BatchEnd(st, bs, Len(vn))
        batch == Slice(vn, st, end)
        sims  == ExcludeSelf(Sims(batch, vn), st, end)
    IN  StoreRows(res, ks, sims, kk, policy, st, end, 0)

\* Faulty variant of CheckParams: k == n_vectors is let through (0 < k <= n_vectors)
CheckParamsInclusive(ks, vs, kk) ==
    LET n_vectors == Len(vs)
    IN  IF Len(ks) # n_vectors
        THEN [type |-> "AssertionError"]
        ELSE IF ~(0 < kk /\ kk <= n_vectors)
        THEN [type |-> "ValueError", n_vectors |-> n_vectors, k |-> kk]
        ELSE NoError

\* Faulty variant of CheckParams: the assertion only rejects a key list that is
\* too short
CheckParamsLongKeys(ks, vs, kk) ==
    LET n_vectors == Len(vs)
    IN  IF Len(ks) < n_vectors
        THEN [type |-> "AssertionError"]
        ELSE IF ~(0 < kk /\ kk < n_vectors)
        THEN [type |-> "ValueError", n_vectors |-> n_vectors, k |-> kk]
        ELSE NoError

\* Faulty variant of VectorsAfter: the division is done in place
\* (vectors /= ...), the rows of the caller's matrix become multiples of the
\* unit vectors
VectorsInPlace(vs, e) ==
    [r \in 1 .. Len(vs) |->
        [d \in 1 .. Len(vs[r]) |-> DivideByNorm(vs[r][d], e, Clip(Norm(vs[r]), e))]]

\* line 40: vectors / np.clip(...) is a new array; the caller's matrix
\* vectors is what it was
VectorsAfter(vs, e) == vs

\* lines 32-36: the exception the checks raise, or NoError
\* (line 32: n_vectors is the number of rows; line 33: assert; line 35-36)
CheckParams(ks, vs, kk) ==
    LET n_vectors == Len(vs)
    IN  IF Len(ks) # n_vectors
        THEN [type |-> "AssertionError"]
        ELSE IF ~(0 < kk /\ kk < n_vectors)
        THEN [type |-> "ValueError", n_vectors |-> n_vectors, k |-> kk]
        ELSE NoError

\* line 39 and the np.clip of line 40
ClippedNorms(vs, e) == [r \in 1 .. Len(vs) |-> Clip(Norm(vs[r]), e)]

\* line 40: vectors / np.clip(norms, ...)
VectorsNorm(vs, e) == [r \in 1 .. Len(vs) |-> NormalizeRow(vs[r], e)]

\* lines 44-68: the loop over batches from start st on
RECURSIVE RunBatches(_, _, _, _, _, _, _)
RunBatches(res, ks, vn, kk, bs, policy, st) ==
    IF st >= Len(vn) THEN res
    ELSE RunBatches(ProcessBatch(res, ks, vn, kk, bs, policy, st),
                    ks, vn, kk, bs, policy, st + bs)

\* lines 38-70: what compute_topk_similarities returns for arguments that
\* pass the checks
ComputeTopK(ks, vs, e, kk, bs, policy) ==
    RunBatches(<<>>, ks, VectorsNorm(vs, e), kk, bs, policy, 0)

-----------------------------------------------------------------------------
(* save_similarities_to_neo4j, lines 164-176 *)

\* Faulty variant of RelationshipsOf: the lists are not cut to top_n
RelationshipsOfUntruncated(article_data, tn) ==
    [i \in 1 .. Len(article_data.top_keys) |->
        [id1        |-> article_data.key,
         id2        |-> article_data.top_keys[i],
         similarity |-> Round4(article_data.similarities[i])]]

\* lines 167-176 for one entry of data: its relationship records
RelationshipsOf(article_data, tn) ==
    LET top_keys     == Take(article_data.top_keys, tn)
        similarities == Take(article_data.similarities, tn)
    IN  [i \in 1 .. Len(top_keys) |->
            [id1        |-> article_data.key,
             id2        |-> top_keys[i],
             similarity |-> Round4(similarities[i])]]

\* lines 165-176: for article_id, article_data in data.items(), from entry p
RECURSIVE PrepareFrom(_, _, _)
PrepareFrom(d, tn, p) ==
    IF p > Len(d) THEN <<>>
    ELSE RelationshipsOf(d[p], tn) \o PrepareFrom(d, tn, p + 1)

PrepareRelationships(d, tn) == PrepareFrom(d, tn, 1)

-----------------------------------------------------------------------------
(* The pickle cache: save_similarities_to_pkl / load_similarities_from_pkl *)

\* Python values that are None or a dict (topk_results, data)
PyNone == [type |-> "NoneType"]
PyDict(d) == [type |-> "dict", items |-> d]

\* The artifact: absent, or a stream of pickle tokens.
FileOf(bytes) == [exists |-> TRUE, bytes |-> bytes]

RECURSIVE DumpEntries(_, _)
DumpEntries(d, p) ==
    IF p > Len(d) THEN <<>>
    ELSE <<d[p].key, "LIST", Len(d[p].top_keys)>> \o d[p].top_keys
         \o <<"LIST", Len(d[p].similarities)>> \o d[p].similarities
         \o DumpEntries(d, p + 1)

\* Faulty variant of Dumps: the two lists of every entry are written in the
\* reverse order
DumpsReversed(obj) ==
    IF obj.type = "NoneType" THEN <<"NONE", "STOP">>
    ELSE <<"DICT", Len(obj.items)>>
         \o DumpEntries([p \in 1 .. Len(obj.items) |->
                [key          |-> obj.items[p].key,
                 top_keys     |-> [q \in 1 .. Len(obj.items[p].top_keys) |->
                                     obj.items[p].top_keys[
                                        Len(obj.items[p].top_keys) + 1 - q]],
                 similarities |-> obj.items[p].similarities]], 1)
         \o <<"STOP">>

\* pickle.dump(obj, f): the token stream of obj
Dumps(obj) ==
    IF obj.type = "NoneType" THEN <<"NONE", "STOP">>
    ELSE <<"DICT", Len(obj.items)>> \o DumpEntries(obj.items, 1) \o <<"STOP">>

\* the outcome of reading: a value and the next position, or an exception
Read(value, next) == [ok |-> TRUE, value |-> value, next |-> next]
Fail(exc) == [ok |-> FALSE, exc |-> exc]

\* a list at position p of the stream b
ReadList(b, p) ==
    IF p + 1 > Len(b) THEN Fail("EOFError")
    ELSE IF b[p] # "LIST" THEN Fail("UnpicklingError")
    ELSE IF p + 1 + b[p + 1] > Len(b) THEN Fail("EOFError")
    ELSE Read(SubSeq(b, p + 2, p + 1 + b[p + 1]), p + 2 + b[p + 1])

\* one entry of the dict at position p
ReadEntry(b, p) ==
    IF p > Len(b) THEN Fail("EOFError")
    ELSE LET top == ReadList(b, p + 1)
         IN  IF ~top.ok THEN top
             ELSE LET sims == ReadList(b, top.next)
                  IN  IF ~sims.ok THEN sims
                      ELSE Read([key          |-> b[p],
                                 top_keys     |-> top.value,
                                 similarities |-> sims.value], sims.next)

\* m entries from position p on, appended to acc
RECURSIVE ReadEntries(_, _, _, _)
ReadEntries(b, p, m, acc) ==
    IF m = 0 THEN Read(acc, p)
    ELSE LET entry == ReadEntry(b, p)
         IN  IF ~entry.ok THEN entry
             ELSE ReadEntries(b, entry.next, m - 1, Append(acc, entry.value))

\* the end of the stream at position p
ReadStop(b, p, value) ==
    IF p > Len(b) THEN Fail("EOFError")
    ELSE IF b[p] # "STOP" THEN Fail("UnpicklingError")
    ELSE Read(value, p + 1)

\* pickle.load(f): the value of a token stream, or the exception raised
Loads(b) ==
    IF Len(b) = 0 THEN Fail("EOFError")
    ELSE IF b[1] = "NONE" THEN ReadStop(b, 2, PyNone)
    ELSE IF b[1] = "DICT" THEN
        IF Len(b) < 2 THEN Fail("EOFError")
        ELSE LET entries == ReadEntries(b, 3, b[2], <<>>)
             IN  IF ~entries.ok THEN entries
                 ELSE ReadStop(b, entries.next, PyDict(entries.value))
    ELSE Fail("UnpicklingError")

\* An artifact that is present but not what was written: cut short, empty,
\* or overwritten with something that is no pickle.
Corruptions(bytes) ==
    { SubSeq(bytes, 1, Len(bytes) - 1), SubSeq(bytes, 1, Len(bytes) \div 2),
      <<>>, <<"GARBAGE">> }

\* a record handed to logger
LogRecord(level, event) == [level |-> level, event |-> event]

\* Faulty variant of LoadOutcome: exceptions other than FileNotFoundError
\* are not caught
LoadOutcomeUncaught(f) ==
    IF ~f.exists
    THEN [raised |-> FALSE, value |-> PyNone,
          logged |-> LogRecord("error", "File not found")]
    ELSE LET r == Loads(f.bytes)
         IN  IF r.ok
             THEN [raised |-> FALSE, value |-> r.value,
                   logged |-> LogRecord("info", "Similarity results loaded successfully.")]
             ELSE [raised |-> TRUE, value |-> PyNone,
                   logged |-> LogRecord("error", r.exc)]

\* lines 129-139 of load_similarities_from_pkl: what is returned and logged,
\* and whether an exception leaves the function
LoadOutcome(f) ==
    IF ~f.exists
    THEN [raised |-> FALSE, value |-> PyNone,
          logged |-> LogRecord("error", "File not found")]
    ELSE LET r == Loads(f.bytes)
         IN  IF r.ok
             THEN [raised |-> FALSE, value |-> r.value,
                   logged |-> LogRecord("info", "Similarity results loaded successfully.")]
             ELSE [raised |-> FALSE, value |-> PyNone,
                   logged |-> LogRecord("error", "Error loading similarity results")]

-----------------------------------------------------------------------------
(* The graph writer: batch() and the upsert query of lines 156-162 *)

\* xml_to_neo4j.batch: for i in range(0, len(iterable), size):
\*                         yield iterable[i:i + size]
RECURSIVE BatchFrom(_, _, _)
BatchFrom(iterable, size, i) ==
    IF i >= Len(iterable) THEN <<>>
    ELSE <<Slice(iterable, i, Min(i + size, Len(iterable)))>>
         \o BatchFrom(iterable, size, i + size)

\* Faulty variant of Batch: the slices start at the second element
BatchFromOne(iterable, size) == BatchFrom(iterable, size, 1)

Batch(iterable, size) == BatchFrom(iterable, size, 0)

\* line 178
TotalBatches(rels, size) == (Len(rels) + size - 1) \div size

\* An is_similar_to relationship of the store: its identity, its two end
\* nodes (Document ids) in the direction it was created, and its weight.
Edge(id, a, b, w) == [id |-> id, src |-> a, dst |-> b, weight |-> w]

\* Faulty variant of MatchUndirected: the pattern (a)-[r]->(b)
MatchDirected(E, a, b) == {e \in E : e.src = a /\ e.dst = b}

\* the relationships the pattern (a)-[r:is_similar_to]-(b) matches: between
\* a and b, in either direction
MatchUndirected(E, a, b) ==
    {e \in E : (e.src = a /\ e.dst = b) \/ (e.src = b /\ e.dst = a)}

\* a fresh relationship identity
NextId(E) == Cardinality(E) + 1

\* MERGE (a)-[r:is_similar_to]-(b) SET r.weight = relationship.similarity
\* for one relationship record
Merge(E, rel) ==
    LET matched == MatchUndirected(E, rel.id1, rel.id2)
    IN  IF matched = {}
        THEN E \cup {Edge(NextId(E), rel.id1, rel.id2, rel.similarity)}
        ELSE (E \ matched)
             \cup {[e EXCEPT !.weight = rel.similarity] : e \in matched}

\* UNWIND $batch AS relationship ... : the records of one query, in order
RECURSIVE Upsert(_, _)
Upsert(E, chunk) ==
    IF chunk = <<>> THEN E ELSE Upsert(Merge(E, Head(chunk)), Tail(chunk))

\* Faulty variant of DataAfterPrepare: the lists of data are cut to top_n in
\* place (del article_data["top_keys"][top_n:])
DataTruncated(d, tn) ==
    PyDict([p \in 1 .. Len(d.items) |->
        [key          |-> d.items[p].key,
         top_keys     |-> Take(d.items[p].top_keys, tn),
         similarities |-> Take(d.items[p].similarities, tn)]])

\* lines 164-176: the slices [:top_n] are copies and round() returns a new
\* number; data itself is what it was
DataAfterPrepare(d, tn) == d

\* Faulty variant of NotData: data is None
NotDataNoneOnly(d) == d.type = "NoneType"

\* if not data (line 152)
NotData(d) == d.type = "NoneType" \/ Len(d.items) = 0

-----------------------------------------------------------------------------
(* The state machine *)

Init ==
    /\ vectors \in VectorLists
    /\ keys \in KeyLists(Len(vectors))
    /\ tie \in TiePolicies
    /\ k = 0
    /\ batch_size = 0
    /\ pc = "idle"
    /\ error = NoError
    /\ norms = <<>>
    /\ vectors_norm = <<>>
    /\ start = 0
    /\ results = <<>>
    /\ visited = <<>>
    /\ ret = None
    /\ top_n = 0
    /\ relationships = <<>>
    /\ vexp \in MagnitudesOf(vectors)
    /\ log = <<>>
    /\ file = Missing
    /\ data = PyNone
    /\ topk_results = PyNone
    /\ emitted = [data |-> PyNone, top_n |-> 0, edges |-> {}]
    /\ calls = <<>>
    /\ attempts = <<>>
    /\ store = {}
    /\ origin = <<>>
    /\ edges = {}
    /\ pending = <<>>
    /\ queries = 0
    /\ total_batches = 0
    /\ emit_size = 0
    /\ runs = 0

\* i is a value of range(0, stop, step), given that it was reached from 0 in
\* steps of step (step # 0)
InRange(i, stop, step) == IF step > 0 THEN i < stop ELSE i > stop

\* A caller invokes compute_topk_similarities(keys, vectors, k, batch_size)
\* with batch_size > 0.
Call ==
    /\ pc = "idle"
    /\ \E kk \in -1 .. Len(vectors) + 1, bs \in 1 .. Len(vectors) + 1 :
          /\ k' = kk
          /\ batch_size' = bs
    /\ pc' = "check"
    /\ UNCHANGED <<keys, vectors, tie, error, norms, vectors_norm, start,
                   results, visited, ret, top_n, relationships, vexp, io_vars>>

\* lines 32-36
Check ==
    /\ pc = "check"
    /\ error' = CheckParams(keys, vectors, k)
    /\ pc' = IF error' = NoError THEN "normalize" ELSE "raised"
    /\ UNCHANGED <<keys, vectors, tie, k, batch_size, norms, vectors_norm,
                   start, results, visited, ret, top_n, relationships, vexp, io_vars>>

\* lines 38-44: normalisation, results = {}, and the loop's first start
Normalize ==
    /\ pc = "normalize"
    /\ vectors' = VectorsAfter(vectors, vexp)
    /\ norms' = ClippedNorms(vectors, vexp)
    /\ vectors_norm' = VectorsNorm(vectors, vexp)
    /\ results' = <<>>
    /\ start' = 0
    /\ pc' = "loop"
    /\ UNCHANGED <<keys, tie, k, batch_size, error, visited, ret,
                   top_n, relationships, vexp, io_vars>>

\* lines 44-68: one iteration of for start in range(0, n_vectors, batch_size)
BatchStep ==
    /\ pc = "loop"
    /\ batch_size # 0
    /\ InRange(start, Len(vectors), batch_size)
    /\ LET end == BatchEnd(start, batch_size, Len(vectors))
       IN  /\ results' = ProcessBatch(results, keys, vectors_norm, k,
                                      batch_size, tie, start)
           /\ visited' = visited \o [i \in 1 .. end - start |-> VecIdx(start, i - 1)]
    /\ start' = start + batch_size
    /\ UNCHANGED <<keys, vectors, tie, k, batch_size, pc, error, norms,
                   vectors_norm, ret, top_n, relationships, vexp, io_vars>>

\* line 70, once the range is exhausted
Return ==
    /\ pc = "loop"
    /\ batch_size # 0
    /\ ~InRange(start, Len(vectors), batch_size)
    /\ ret' = results
    /\ pc' = "done"
    /\ UNCHANGED <<keys, vectors, tie, k, batch_size, error, norms,
                   vectors_norm, start, results, visited, top_n, relationships, vexp, io_vars>>

\* save_similarities_to_neo4j(conn, data, top_n, ...) on the returned
\* mapping, lines 152-176: the relationship records it prepares
Prepare ==
    /\ pc = "done"
    /\ \E tn \in 1 .. MaxN :
          /\ top_n' = tn
          /\ relationships' = IF ret = <<>> THEN <<>>
                              ELSE PrepareRelationships(ret, tn)
    /\ pc' = "prepared"
    /\ UNCHANGED <<keys, vectors, tie, k, batch_size, error, norms,
                   vectors_norm, start, results, visited, ret, vexp, io_vars>>

Next ==
    \/ Call
    \/ Check
    \/ Normalize
    \/ BatchStep
    \/ Return
    \/ Prepare

Spec == Init /\ [][Next]_vars

-----------------------------------------------------------------------------
(* Repeated calls of compute_topk_similarities in one process *)

\* largest number of calls made one after the other
MaxCalls == 2

\* what a finished call gave its caller: a mapping, or an exception
Outcome ==
    IF pc = "raised" THEN [raised |-> TRUE, error |-> error]
    ELSE [raised |-> FALSE, value |-> ret]

InitCalls ==
    /\ vectors \in { Steep, << <<3, 4>>, <<3, 4>>, <<0, 0>> >> }
    /\ keys \in { UniqueKeys(Len(vectors)), UniqueKeys(Len(vectors) + 1) }
    /\ vexp = 0
    /\ tie \in TiePolicies
    /\ k = 0
    /\ batch_size = 0
    /\ pc = "idle"
    /\ error = NoError
    /\ norms = <<>>
    /\ vectors_norm = <<>>
    /\ start = 0
    /\ results = <<>>
    /\ visited = <<>>
    /\ ret = None
    /\ top_n = 0
    /\ relationships = <<>>
    /\ log = <<>>
    /\ file = Missing
    /\ data = PyNone
    /\ topk_results = PyNone
    /\ emitted = [data |-> PyNone, top_n |-> 0, edges |-> {}]
    /\ calls = <<>>
    /\ attempts = <<>>
    /\ store = {}
    /\ origin = <<>>
    /\ edges = {}
    /\ pending = <<>>
    /\ queries = 0
    /\ total_batches = 0
    /\ emit_size = 0
    /\ runs = 0

\* The call is over (returned or raised) and the caller is about to call
\* again with the same keys and vectors objects.  Whatever the finished call
\* left behind stays where it is.
CallAgain ==
    /\ pc \in {"done", "raised"}
    /\ Len(calls) < MaxCalls - 1
    /\ calls' = Append(calls, [k |-> k, batch_size |-> batch_size,
                               outcome |-> Outcome])
    /\ pc' = "idle"
    /\ UNCHANGED <<keys, vectors, tie, k, batch_size, error, norms,
                   vectors_norm, start, results, visited, ret, top_n,
                   relationships, vexp, log, file, data, edges, pending,
                   queries, total_batches, emit_size, topk_results, emitted,
                   runs, store, origin, attempts>>

NextCalls ==
    \/ Call
    \/ Check
    \/ Normalize
    \/ BatchStep
    \/ Return
    \/ CallAgain

SpecCalls == InitCalls /\ [][NextCalls]_vars

-----------------------------------------------------------------------------
(* Calls with any batch_size *)

\* A caller invokes compute_topk_similarities with a valid or invalid k and
\* a positive, zero or negative batch_size.
CallAnyBatchSize ==
    /\ pc = "idle"
    /\ \E kk \in 0 .. Len(vectors), bs \in -2 .. Len(vectors) :
          /\ k' = kk
          /\ batch_size' = bs
    /\ pc' = "check"
    /\ UNCHANGED <<keys, vectors, tie, error, norms, vectors_norm, start,
                   results, visited, ret, top_n, relationships, vexp, io_vars>>

\* line 44 with batch_size = 0: range() raises ValueError
RangeRaises ==
    /\ pc = "loop"
    /\ batch_size = 0
    /\ error' = [type |-> "ValueError", msg |-> "range() arg 3 must not be zero"]
    /\ pc' = "raised"
    /\ UNCHANGED <<keys, vectors, tie, k, batch_size, norms, vectors_norm,
                   start, results, visited, ret, top_n, relationships, vexp,
                   io_vars>>

NextBatchSize ==
    \/ CallAnyBatchSize
    \/ Check
    \/ Normalize
    \/ BatchStep
    \/ RangeRaises
    \/ Return

SpecBatchSize == InitCalls /\ [][NextBatchSize]_vars

-----------------------------------------------------------------------------
(* fetch_and_compute_similarities: the two queries of lines 86 and 94 *)

Doc(id, embedding) == [id |-> id, embedding |-> embedding]

\* The Document nodes at the start: none, two, or three documents.
Stores ==
    { {},
      { Doc(100, <<3, 4>>), Doc(110, <<5, 12>>) },
      { Doc(100, <<5, 12>>), Doc(110, <<12, 5>>), Doc(120, <<-12, -5>>) } }

\* What another client of the store can do between the two queries: delete a
\* document, add one, replace an embedding.
StoreChangesOf(S) ==
    { S \ {d} : d \in S }
    \cup { S \cup {Doc(130, <<3, 4>>)} }
    \cup { (S \ {d}) \cup {Doc(d.id, <<-4, -3>>)} : d \in S }

\* MATCH (d:Document) RETURN ... without ORDER BY: the rows of S in an order
\* the store chooses
RowOrders(S) ==
    { f \in [1 .. Cardinality(S) -> S] :
        \A i, j \in 1 .. Cardinality(S) : f[i] = f[j] => i = j }

InitFetch ==
    /\ store \in Stores
    /\ keys = <<>>
    /\ vectors = <<>>
    /\ origin = <<>>
    /\ vexp = 0
    /\ tie \in TiePolicies
    /\ k = 1
    /\ batch_size \in {1, 2}
    /\ pc = "fetch_ids"
    /\ error = NoError
    /\ norms = <<>>
    /\ vectors_norm = <<>>
    /\ start = 0
    /\ results = <<>>
    /\ visited = <<>>
    /\ ret = None
    /\ top_n = 0
    /\ relationships = <<>>
    /\ log = <<>>
    /\ file = Missing
    /\ data = PyNone
    /\ topk_results = PyNone
    /\ emitted = [data |-> PyNone, top_n |-> 0, edges |-> {}]
    /\ calls = <<>>
    /\ attempts = <<>>
    /\ edges = {}
    /\ pending = <<>>
    /\ queries = 0
    /\ total_batches = 0
    /\ emit_size = 0
    /\ runs = 0

\* lines 85-91: keys = [record["id"] for record in conn.query(...)]
QueryIds ==
    /\ pc = "fetch_ids"
    /\ \E rows \in RowOrders(store) :
          keys' = [i \in 1 .. Len(rows) |-> rows[i].id]
    /\ IF store = {}
       THEN /\ log' = <<LogRecord("info", "Fetching document IDs from Neo4j..."),
                        LogRecord("info", "Fetched document IDs"),
                        LogRecord("error", "No documents found in the database.")>>
            /\ pc' = "returned_none"
       ELSE /\ log' = <<LogRecord("info", "Fetching document IDs from Neo4j..."),
                        LogRecord("info", "Fetched document IDs")>>
            /\ pc' = "fetch_embeddings"
    /\ UNCHANGED <<vectors, tie, k, batch_size, error, norms, vectors_norm,
                   start, results, visited, ret, top_n, relationships, vexp,
                   file, data, edges, pending, queries, total_batches,
                   emit_size, topk_results, emitted, calls, store, origin, runs, attempts>>

\* Between the two queries another client changes the store.
StoreChanges ==
    /\ pc = "fetch_embeddings"
    /\ store' \in StoreChangesOf(store)
    /\ pc' = "fetch_embeddings_late"
    /\ UNCHANGED <<keys, vectors, tie, k, batch_size, error, norms,
                   vectors_norm, start, results, visited, ret, top_n,
                   relationships, vexp, log, file, data, edges, pending,
                   queries, total_batches, emit_size, topk_results, emitted,
                   calls, origin, runs, attempts>>

\* lines 93-99: vectors = [record["embedding"] for record in conn.query(...)],
\* then the call of compute_topk_similarities
QueryEmbeddings ==
    /\ pc \in {"fetch_embeddings", "fetch_embeddings_late"}
    /\ \E rows \in RowOrders(store) :
          /\ vectors' = [i \in 1 .. Len(rows) |-> rows[i].embedding]
          /\ origin' = [i \in 1 .. Len(rows) |-> rows[i].id]
    /\ log' = log \o <<LogRecord("info", "Fetching document embeddings from Neo4j..."),
                       LogRecord("info", "Computing top-k similarities")>>
    /\ pc' = "check"
    /\ UNCHANGED <<keys, tie, k, batch_size, error, norms, vectors_norm,
                   start, results, visited, ret, top_n, relationships, vexp,
                   file, data, edges, pending, queries, total_batches,
                   emit_size, topk_results, emitted, calls, store, runs, attempts>>

NextFetch ==
    \/ QueryIds
    \/ StoreChanges
    \/ QueryEmbeddings
    \/ Check
    \/ Normalize
    \/ BatchStep
    \/ Return

SpecFetch == InitFetch /\ [][NextFetch]_vars

-----------------------------------------------------------------------------
(* The driver of lines 191-202: compute, save, load, emit *)

\* largest number of runs of the driver against the same graph store
MaxRuns == 2

\* The Document nodes of the store: none, two, or three documents.
Corpora ==
    { <<>>,
      << <<3, 4>>, <<5, 12>> >>,
      Steep,
      << <<3, 4>>, <<5, 12>>, <<-4, -3>> >>,
      << <<3, 4>>, <<3, 4>>, <<0, 0>> >> }

compute_vars == <<norms, vectors_norm, start, results, visited, ret,
                  relationships>>

InitPipeline ==
    /\ vectors \in Corpora
    /\ keys = UniqueKeys(Len(vectors))
    /\ vexp = 0
    /\ tie \in TiePolicies
    /\ k \in 1 .. 2
    /\ batch_size \in {1, 2, 4}
    /\ top_n \in 1 .. 2
    /\ pc = "main"
    /\ error = NoError
    /\ norms = <<>>
    /\ vectors_norm = <<>>
    /\ start = 0
    /\ results = <<>>
    /\ visited = <<>>
    /\ ret = None
    /\ relationships = <<>>
    /\ log = <<>>
    /\ file = Missing
    /\ data = PyNone
    /\ topk_results = PyNone
    /\ emitted = [data |-> PyNone, top_n |-> 0, edges |-> {}]
    /\ calls = <<>>
    /\ attempts = <<>>
    /\ store = {}
    /\ origin = <<>>
    /\ edges = {}
    /\ pending = <<>>
    /\ queries = 0
    /\ total_batches = 0
    /\ emit_size = 0
    /\ runs = 0

\* line 197: topk_results = fetch_and_compute_similarities(conn, k, batch_size)
FetchAndCompute ==
    /\ pc = "main"
    /\ IF keys = <<>>
       THEN /\ log' = <<LogRecord("info", "Fetching document IDs from Neo4j..."),
                        LogRecord("info", "Fetched document IDs"),
                        LogRecord("error", "No documents found in the database.")>>
            /\ topk_results' = PyNone
            /\ pc' = "fetched"
            /\ error' = error
       ELSE /\ log' = <<LogRecord("info", "Fetching document IDs from Neo4j..."),
                        LogRecord("info", "Fetched document IDs"),
                        LogRecord("info", "Fetching document embeddings from Neo4j..."),
                        LogRecord("info", "Computing top-k similarities")>>
                      \o IF CheckParams(keys, vectors, k) = NoError
                         THEN <<LogRecord("info", "Similarity computation completed")>>
                         ELSE <<>>
            /\ error' = CheckParams(keys, vectors, k)
            /\ IF CheckParams(keys, vectors, k) = NoError
               THEN /\ topk_results' =
                          PyDict(ComputeTopK(keys, vectors, vexp, k, batch_size, tie))
                    /\ pc' = "fetched"
               ELSE /\ topk_results' = topk_results
                    /\ pc' = "crashed"
    /\ UNCHANGED <<keys, vectors, vexp, tie, k, batch_size, top_n, compute_vars,
                   file, data, edges, pending, queries, total_batches,
                   emit_size, emitted, runs, calls, store, origin, attempts>>

\* line 198: save_similarities_to_pkl(topk_results)
SavePkl ==
    /\ pc = "fetched"
    /\ file' = FileOf(Dumps(topk_results))
    /\ log' = Append(log, LogRecord("info", "Similarity results saved successfully."))
    /\ pc' = "saved"
    /\ UNCHANGED <<keys, vectors, vexp, tie, k, batch_size, top_n, error,
                   compute_vars, data, topk_results, edges, pending, queries,
                   total_batches, emit_size, emitted, runs, calls, store, origin, attempts>>

\* Between the save and the load the artifact is in the file system, where
\* it can be removed or damaged.
Tamper ==
    /\ pc = "saved"
    /\ \/ file' = Missing
       \/ file' \in {FileOf(b) : b \in Corruptions(file.bytes)}
    /\ pc' = "tampered"
    /\ UNCHANGED <<keys, vectors, vexp, tie, k, batch_size, top_n, error,
                   compute_vars, log, data, topk_results, edges, pending,
                   queries, total_batches, emit_size, emitted, runs, calls, store, origin, attempts>>

\* line 200: data = load_similarities_from_pkl()
LoadPkl ==
    /\ pc \in {"saved", "tampered"}
    /\ log' = Append(log, LoadOutcome(file).logged)
    /\ IF LoadOutcome(file).raised
       THEN /\ pc' = "crashed"
            /\ data' = data
       ELSE /\ pc' = "loaded"
            /\ data' = LoadOutcome(file).value
    /\ UNCHANGED <<keys, vectors, vexp, tie, k, batch_size, top_n, error,
                   compute_vars, file, topk_results, edges, pending, queries,
                   total_batches, emit_size, emitted, runs, calls, store, origin, attempts>>

\* line 201: save_similarities_to_neo4j(conn, data, top_n, batch_size), up to
\* the loop of line 183
EmitStart ==
    /\ pc = "loaded"
    /\ runs' = runs + 1
    /\ emit_size' = batch_size
    /\ queries' = 0
    /\ attempts' = <<>>
    /\ IF NotData(data)
       THEN /\ log' = Append(log, LogRecord("error", "No similarity data to save"))
            /\ relationships' = <<>>
            /\ total_batches' = 0
            /\ pending' = <<>>
            /\ pc' = "finished"
            /\ data' = data
       ELSE /\ relationships' = PrepareRelationships(data.items, top_n)
            /\ data' = DataAfterPrepare(data, top_n)
            /\ total_batches' = TotalBatches(relationships', batch_size)
            /\ log' = Append(log, LogRecord("info", "Saving relationships to Neo4j"))
            /\ pending' = Batch(relationships', batch_size)
            /\ pc' = "sending"
    /\ UNCHANGED <<keys, vectors, vexp, tie, k, batch_size, top_n, error,
                   norms, vectors_norm, start, results, visited, ret,
                   file, topk_results, edges, emitted, calls, store, origin>>

\* lines 183-185: one turn of the loop, one upsert query
SendBatch ==
    /\ pc = "sending"
    /\ pending # <<>>
    /\ log' = Append(log, LogRecord("info", "Processing batch"))
    /\ edges' = Upsert(edges, Head(pending))
    /\ queries' = queries + 1
    /\ attempts' = Append(attempts, [chunk |-> Head(pending), ok |-> TRUE])
    /\ pending' = Tail(pending)
    /\ UNCHANGED <<keys, vectors, vexp, tie, k, batch_size, top_n, pc, error,
                   compute_vars, file, data, topk_results, total_batches,
                   emit_size, emitted, runs, calls, store, origin>>

\* lines 187-188: the loop is over, save_similarities_to_neo4j returns
EmitReturn ==
    /\ pc = "sending"
    /\ pending = <<>>
    /\ log' = Append(log, LogRecord("info", "Created 'is_similar_to' relationships"))
    /\ emitted' = [data |-> data, top_n |-> top_n, edges |-> edges]
    /\ pc' = "finished"
    /\ UNCHANGED <<keys, vectors, vexp, tie, k, batch_size, top_n, error,
                   compute_vars, file, data, topk_results, edges, pending,
                   queries, total_batches, emit_size, runs, calls, store, origin, attempts>>

\* The script is run again on the same store, the embeddings of the
\* documents unchanged or updated.
Rerun ==
    /\ pc = "finished"
    /\ runs < MaxRuns
    /\ vectors' \in {c \in Corpora : Len(c) = Len(vectors)}
    /\ pc' = "main"
    /\ UNCHANGED <<keys, vexp, tie, k, batch_size, top_n, error, compute_vars,
                   log, file, data, topk_results, edges, pending, queries,
                   total_batches, emit_size, emitted, runs, calls, store, origin, attempts>>

\* save_similarities_to_neo4j is called once more on the same data, with
\* the same or another top_n.
EmitAgain ==
    /\ pc = "finished"
    /\ runs < MaxRuns
    /\ top_n' \in 1 .. 2
    /\ pc' = "loaded"
    /\ UNCHANGED <<keys, vectors, vexp, tie, k, batch_size, error, compute_vars,
                   log, file, data, topk_results, edges, pending, queries,
                   total_batches, emit_size, emitted, runs, calls, store,
                   origin, attempts>>

NextPipeline ==
    \/ FetchAndCompute
    \/ SavePkl
    \/ Tamper
    \/ LoadPkl
    \/ EmitStart
    \/ SendBatch
    \/ EmitReturn
    \/ Rerun
    \/ EmitAgain

SpecPipeline == InitPipeline /\ [][NextPipeline]_vars

-----------------------------------------------------------------------------
(* Vocabulary of the properties *)

n_vectors == Len(vectors)

UniqueKeyList == \A i, j \in 1 .. Len(keys) : keys[i] = keys[j] => i = j

\* compute_topk_similarities has just returned a mapping (ret)
Returned == pc = "done"

SeqRange(s) == {s[p] : p \in 1 .. Len(s)}

\* The similarity score of two raw vectors (units of 10^-vexp), straight
\* from its definition: dot(u, v) / (|u| |v|), each norm raised to the floor
\* 1e-10 when below it; in units of 1/(Unit*Unit).  For norms at or above
\* the floor it is the cosine similarity.
FlooredNorm(u) ==
    IF vexp > EpsExp /\ Norm(u) < Pow10(vexp - EpsExp)
    THEN Pow10(vexp - EpsExp)
    ELSE Norm(u)
Cosine(u, v) ==
    IF Dot(u, v) = 0 THEN 0
    ELSE (Dot(u, v) * Unit * Unit) \div (FlooredNorm(u) * FlooredNorm(v))

\* the row of the document with key key (unique keys)
RowOfKey(key) == CHOOSE g \in Range0(Len(keys)) : At(keys, g) = key

\* the similarities of row g to the other rows, as the set of (row, score)
Others(g) == Range0(n_vectors) \ {g}
ScoreTo(g, j) == Cosine(At(vectors, g), At(vectors, j))

\* how often the score x occurs among the k largest scores of row g to the
\* other rows: all documents scoring above x come first, then those scoring x
NumAbove(g, x) == Cardinality({j \in Others(g) : ScoreTo(g, j) > x})
NumEqual(g, x) == Cardinality({j \in Others(g) : ScoreTo(g, j) = x})
CountInTopK(g, kk, x) ==
    IF NumAbove(g, x) >= kk THEN 0 ELSE Min(NumEqual(g, x), kk - NumAbove(g, x))

CountIn(s, x) == Cardinality({p \in 1 .. Len(s) : s[p] = x})

-----------------------------------------------------------------------------
(* Properties *)

\* C1: with unique keys, no key of the returned mapping is listed among its
\* own neighbours (top_keys).
C1_NoSelfMatch ==
    (Returned /\ UniqueKeyList) =>
        \A p \in 1 .. Len(ret) : ret[p].key \notin SeqRange(ret[p].top_keys)

\* C1 witness: a returned mapping for three or more documents with k at its
\* maximum n-1 and two identical vectors (whose mutual similarity equals the
\* self-similarity).
C1_Witness ==
    /\ pc = "done"
    /\ UniqueKeyList
    /\ n_vectors >= 3
    /\ k = n_vectors - 1
    /\ vectors[1] = vectors[2]
    /\ vectors[1] # <<0, 0>>

\* C2: every entry of the returned mapping has exactly k neighbour keys and
\* exactly k similarities.
C2_Cardinality ==
    Returned =>
        \A p \in 1 .. Len(ret) :
            /\ Len(ret[p].top_keys) = k
            /\ Len(ret[p].similarities) = k

\* C2 witness: a returned mapping with k = n-1 >= 2, computed in more than
\* one batch.
C2_Witness ==
    /\ pc = "done"
    /\ k = n_vectors - 1
    /\ k >= 2
    /\ batch_size < n_vectors
    /\ Len(ret) = n_vectors

\* C3: in every entry of the returned mapping the similarities are
\* non-increasing.
C3_Descending ==
    Returned =>
        \A p \in 1 .. Len(ret) :
            \A i \in 1 .. Len(ret[p].similarities) - 1 :
                ret[p].similarities[i] >= ret[p].similarities[i + 1]

\* C3 witness: an entry whose similarities strictly decrease, from a positive
\* to a negative one.
C3_Witness ==
    /\ pc = "done"
    /\ \E p \in 1 .. Len(ret) :
          /\ Len(ret[p].similarities) >= 2
          /\ ret[p].similarities[1] > 0
          /\ ret[p].similarities[2] < 0

\* C4: for every row g the returned scores are, as a multiset, the k largest
\* cosine similarities of g to the n-1 other documents, every returned
\* neighbour is another document, and no document left out scores higher
\* than one returned; in the five-document scenario with k = 2, document 0
\* gets documents 1 and 4.
C4_TopKIsHighest ==
    (Returned /\ UniqueKeyList) =>
        /\ \A p \in 1 .. Len(ret) :
              LET g    == RowOfKey(ret[p].key)
                  sims == ret[p].similarities
                  nbrs == {RowOfKey(key) : key \in SeqRange(ret[p].top_keys)}
              IN  /\ \A j \in Others(g) :
                        CountIn(sims, ScoreTo(g, j)) = CountInTopK(g, k, ScoreTo(g, j))
                  /\ Len(sims) = k
                  /\ nbrs \subseteq Others(g)
                  /\ Cardinality(nbrs) = k
                  /\ \A j \in Others(g) \ nbrs : \A i \in nbrs :
                        ScoreTo(g, j) <= ScoreTo(g, i)
        /\ (vectors = Scenario /\ k = 2) =>
              SeqRange(DictGet(ret, At(keys, 0)).top_keys) = {At(keys, 1), At(keys, 4)}

\* C4 witness: the scenario with k = 2 has returned, document 0 listing
\* document 1 first and document 4 second.
C4_Witness ==
    /\ pc = "done"
    /\ vectors = Scenario
    /\ UniqueKeyList
    /\ k = 2
    /\ DictGet(ret, At(keys, 0)).top_keys = <<At(keys, 1), At(keys, 4)>>


\* the exception classes the specification calls InvalidParameterError:
\* the ValueError of line 36 and the AssertionError of line 33
InvalidParameterError == {"ValueError", "AssertionError"}

KOutOfRange == k <= 0 \/ k >= n_vectors

\* the parameter checks of the call have run
Checked == pc \notin {"idle", "check"}

\* C5: a call with k <= 0 or k >= n raises InvalidParameterError, and when
\* the key list fits the matrix the error states the valid range (n) and the
\* offending k; a call with k = n-1 (n >= 2) raises nothing and what it
\* returns is a mapping.
C5_RangeGuard ==
    Checked =>
        /\ KOutOfRange =>
              /\ pc = "raised"
              /\ error.type \in InvalidParameterError
              /\ Len(keys) = n_vectors =>
                    error = [type |-> "ValueError", n_vectors |-> n_vectors, k |-> k]
        /\ (k = n_vectors - 1 /\ k > 0 /\ Len(keys) = n_vectors) =>
              /\ pc # "raised"
              /\ error = NoError
              /\ Returned => Len(ret) > 0

\* C5 witness: the call with k = n on a well-formed input has raised.
C5_Witness ==
    /\ pc = "raised"
    /\ Len(keys) = n_vectors
    /\ n_vectors >= 2
    /\ k = n_vectors
    /\ error.type = "ValueError"

\* C6: when the key list does not fit the matrix or k is out of range, the
\* call raises InvalidParameterError at the checks, and in the raised state
\* nothing has been normalised, no batch has run, no entry was stored and
\* nothing was returned.
C6_FailFast ==
    /\ (Checked /\ (Len(keys) # n_vectors \/ KOutOfRange)) =>
          /\ pc = "raised"
          /\ error.type \in InvalidParameterError
    /\ pc = "raised" =>
          /\ norms = <<>>
          /\ vectors_norm = <<>>
          /\ results = <<>>
          /\ visited = <<>>
          /\ start = 0
          /\ ret = None
          /\ relationships = <<>>

\* C6 witness: a call with a key list longer than the matrix and a k that is
\* in range has raised.
C6_Witness ==
    /\ pc = "raised"
    /\ Len(keys) = n_vectors + 1
    /\ 0 < k
    /\ k < n_vectors
    /\ error.type = "AssertionError"

\* C7: the batches [start, min(start+batch_size, n)) store the rows
\* 0 .. n-1, each once and in ascending order: while the loop runs the rows
\* stored are exactly those below start, and at return all n; with unique
\* keys the returned mapping has n entries, one per input key.
C7_BatchesCoverRows ==
    /\ pc = "loop" =>
          visited = [i \in 1 .. Min(start, n_vectors) |-> i - 1]
    /\ Returned =>
          /\ visited = [i \in 1 .. n_vectors |-> i - 1]
          /\ UniqueKeyList =>
                /\ Len(ret) = n_vectors
                /\ DictKeys(ret) = SeqRange(keys)

\* C7 witness: three rows were returned from batches of size 2, the last
\* batch holding one row.
C7_Witness ==
    /\ pc = "done"
    /\ UniqueKeyList
    /\ n_vectors = 3
    /\ batch_size = 2
    /\ start = 4
    /\ Len(ret) = 3

\* C8: whatever batch_size > 0 the call was made with (1, one that does not
\* divide n, n, more than n), the returned mapping is the one the same keys,
\* vectors and k give with batch_size = n, a single batch (same build): all
\* batch sizes give the same mapping.
C8_BatchInvariance ==
    Returned => ret = ComputeTopK(keys, vectors, vexp, k, n_vectors, tie)

\* C8 witness: a mapping returned from batches of size 2 over three rows, in
\* which some row has two equally similar neighbours.
C8_Witness ==
    /\ pc = "done"
    /\ n_vectors = 3
    /\ batch_size = 2
    /\ \E p \in 1 .. Len(ret) :
          /\ Len(ret[p].similarities) = 2
          /\ ret[p].similarities[1] = ret[p].similarities[2]

\* C9 (as claimed): for top_n <= k, the first top_n neighbour keys and
\* scores of every entry computed with width k are the entry computed
\* directly with k = top_n.
C9_TruncationEqualsDirect ==
    (pc = "prepared" /\ top_n <= k) =>
        LET direct == ComputeTopK(keys, vectors, vexp, top_n, batch_size, tie)
        IN  \A p \in 1 .. Len(ret) :
                /\ Take(ret[p].top_keys, top_n) = DictGet(direct, ret[p].key).top_keys
                /\ Take(ret[p].similarities, top_n)
                      = DictGet(direct, ret[p].key).similarities

\* the relationship record number q of the emission, read off the returned
\* mapping by position: entry e, rank r
EntryOfRecord(q, m) == ((q - 1) \div m) + 1
RankOfRecord(q, m) == ((q - 1) % m) + 1

\* C10: the relationship records are, for every entry of the data in order
\* and for each of its first min(top_n, k) neighbours in rank order, one
\* record {id1: key, id2: neighbour, similarity: the score to 4 decimals},
\* and nothing else; with top_n <= k and unique keys that is n * top_n
\* records.
C10_EmitsFirstTopN ==
    pc = "prepared" =>
        LET m == Min(top_n, k)
        IN  /\ Len(relationships) = Len(ret) * m
            /\ \A q \in 1 .. Len(relationships) :
                  LET e   == ret[EntryOfRecord(q, m)]
                      r   == RankOfRecord(q, m)
                      rec == relationships[q]
                  IN  /\ DOMAIN rec = {"id1", "id2", "similarity"}
                      /\ rec.id1 = e.key
                      /\ rec.id2 = e.top_keys[r]
                      /\ 2 * Abs(rec.similarity * Unit * Unit
                                 - e.similarities[r] * Pow10(Digits)) <= Unit * Unit
            /\ (top_n <= k /\ UniqueKeyList) =>
                  Len(relationships) = Len(keys) * top_n

\* C10 witness: three documents with k = 2 emitted with top_n = 1: three
\* records, one per document.
C10_Witness ==
    /\ pc = "prepared"
    /\ UniqueKeyList
    /\ n_vectors = 3
    /\ k = 2
    /\ top_n = 1
    /\ Len(relationships) = 3
    /\ relationships[2].id1 = At(keys, 1)

-----------------------------------------------------------------------------
(* Scaling the input *)

\* A positive constant c = mul * 10^shift.  Multiplying by 2 and by a power
\* of ten keeps every quantity of the model exact.
Scalings ==
    { c \in [mul : {1, 2}, shift : {-1, 0, 1}] :
        /\ (c.mul = 1) # (c.shift = 0)
        /\ vexp - c.shift >= 0 }

\* c * vectors: the integer components, and the exponent of their unit
ScaledVectors(c) ==
    [r \in 1 .. Len(vectors) |->
        [d \in 1 .. Len(vectors[r]) |-> c.mul * vectors[r][d]]]
ScaledExp(c) == vexp - c.shift

\* every row of vs (units of 10^-e) has a norm at or above the floor 1e-10
AllAtOrAboveFloor(vs, e) ==
    \A r \in 1 .. Len(vs) : ~BelowFloor(Norm(vs[r]), e)

\* the result for the input scaled by c is the result that was returned
SameResultScaled(c) ==
    ComputeTopK(keys, ScaledVectors(c), ScaledExp(c), k, batch_size, tie) = ret

\* C18 (as stated): if every vector has a norm at or above the floor after
\* scaling by c > 0, the scaled input has the same result (keys, order,
\* scores) as the original input.
C18_ScaleInvariance ==
    Returned =>
        \A c \in Scalings :
            AllAtOrAboveFloor(ScaledVectors(c), ScaledExp(c))
                => SameResultScaled(c)

\* C18 (amended): if every vector has a norm at or above the floor both
\* before and after scaling by c > 0, the scaled input has the same result
\* (keys, order, scores) as the original input.
C18_ScaleInvarianceAboveFloor ==
    Returned =>
        \A c \in Scalings :
            /\ AllAtOrAboveFloor(vectors, vexp)
            /\ AllAtOrAboveFloor(ScaledVectors(c), ScaledExp(c))
            => SameResultScaled(c)

\* a result was returned for three tiny documents of two directions, all
\* above the floor, and doubling them keeps them above the floor
C18_Witness ==
    /\ Returned
    /\ vexp = TinyExp
    /\ n_vectors = 3
    /\ k = 2
    /\ vectors[1] # vectors[2]
    /\ AllAtOrAboveFloor(vectors, vexp)
    /\ \E c \in Scalings :
          c.mul = 2 /\ AllAtOrAboveFloor(ScaledVectors(c), ScaledExp(c))

-----------------------------------------------------------------------------
(* Degenerate vectors *)

IsZeroVector(v) == \A d \in 1 .. Len(v) : v[d] = 0
ZeroRows == {r \in 1 .. n_vectors : IsZeroVector(vectors[r])}

\* lines 39-40 have run
Normalized == Len(norms) = n_vectors

\* a similarity that is a number of [-1, 1]: not the sentinel -inf
Finite(x) == -(Unit * Unit) <= x /\ x <= Unit * Unit

\* C19: with all-zero vectors in the input, the call raises nothing (an
\* exception is raised only for a key list that does not fit or a k out of
\* range), the norm a zero row is divided by is the floor 1e-10, no row is
\* divided by zero, and every similarity returned is a finite number, never
\* the -inf with which the self column was excluded.
C19_ZeroVectors ==
    ZeroRows # {} =>
        /\ pc = "raised" => (Len(keys) # n_vectors \/ KOutOfRange)
        /\ Normalized =>
              /\ \A r \in ZeroRows : norms[r] = <<1, EpsExp>>
              /\ \A r \in 1 .. n_vectors : norms[r][1] > 0
        /\ Returned =>
              \A p \in 1 .. Len(ret) :
                  \A q \in 1 .. Len(ret[p].similarities) :
                      Finite(ret[p].similarities[q])

\* a result was returned for three documents, zero vectors and a non-zero
\* vector among them, with every other document as a neighbour
C19_Witness ==
    /\ Returned
    /\ n_vectors = 3
    /\ k = 2
    /\ ZeroRows # {}
    /\ ZeroRows # 1 .. n_vectors
    /\ Len(ret) = 3

\* the rows whose norm np.clip raises to the floor
ClampedRows == {r \in 1 .. n_vectors : BelowFloor(Norm(vectors[r]), vexp)}

\* the caller can see that a norm was clamped: a record of it is in the log
DegeneracyReported ==
    \E i \in 1 .. Len(log) : log[i].event = "NumericDegeneracyWarning"

\* C20: when the norm of a vector was floor-clamped and the call has
\* returned, the clamping was reported (logged or counted), and the result
\* is full: an entry for every distinct key.
C20_ClampObservable ==
    (Returned /\ ClampedRows # {}) =>
        /\ DegeneracyReported
        /\ DictKeys(ret) = SeqRange(keys)

-----------------------------------------------------------------------------
(* The cache and the driver *)

\* what is in the artifact cannot be unpickled
Corrupt == file.exists /\ ~Loads(file.bytes).ok

\* load_similarities_from_pkl has returned after failing to read the artifact
LoadFailed == pc = "loaded" /\ (~file.exists \/ Corrupt)

C12_DistinctLoadErrors ==
    (pc = "loaded" /\ Corrupt) =>
        \/ LoadOutcome(Missing).raised
        \/ data # LoadOutcome(Missing).value

\* C13: no failure of reading the artifact leaves load_similarities_from_pkl
\* as an exception: the driver only stops on an exception for the parameter
\* error of the computation, and after a failed read the function has
\* returned None and logged an error.
C13_LoadNeverRaises ==
    /\ pc = "crashed" => error.type \in InvalidParameterError
    /\ LoadFailed =>
          /\ data = PyNone
          /\ log[Len(log)].level = "error"

\* the artifact of a computed mapping was damaged and the load has returned
C13_Witness ==
    /\ pc = "loaded"
    /\ Corrupt
    /\ Len(file.bytes) > 1
    /\ topk_results.type = "dict"

\* C14: when the driver has finished and the load had failed, the caller
\* has recomputed and handed a result to the graph writer, which has issued
\* upsert queries for it.
C14_FallbackRecompute ==
    (pc = "finished" /\ topk_results.type = "dict"
        /\ (~file.exists \/ Corrupt)) =>
        /\ ~NotData(data)
        /\ queries > 0

-----------------------------------------------------------------------------
(* The emission *)

\* the unordered pair of documents an edge joins
PairOf(e) == {e.src, e.dst}

\* the loop of line 183 has sent every batch
AllSent == pc = "sending" /\ pending = <<>>

\* C15: the store never holds two is_similar_to edges between the same two
\* documents, whatever was emitted and how often; and when an emission has
\* sent the data that the previous emission had sent, the edges and their
\* weights are what they were after the previous emission.
C15_UpsertIdempotent ==
    /\ \A e1, e2 \in edges : PairOf(e1) = PairOf(e2) => e1 = e2
    /\ (AllSent /\ emitted.data = data /\ emitted.top_n = top_n)
          => edges = emitted.edges

\* the second emission of the same three entries with two neighbours each
\* (every pair is listed from both sides) has sent all its batches
C15_Witness ==
    /\ AllSent
    /\ runs = 2
    /\ emitted.data = data
    /\ emitted.top_n = top_n
    /\ Len(data.items) = 3
    /\ top_n = 2
    /\ k = 2
    /\ Cardinality(edges) = 3

\* the stored score of the relationship record number q
StoredScore(q) ==
    LET m == Min(top_n, k)
    IN  data.items[EntryOfRecord(q, m)].similarities[RankOfRecord(q, m)]

\* every score of the mapping d is the exact similarity of the two documents
Unrounded(d) ==
    \A p \in 1 .. Len(d) :
        \A q \in 1 .. Len(d[p].similarities) :
            d[p].similarities[q]
                = ScoreTo(RowOfKey(d[p].key), RowOfKey(d[p].top_keys[q]))

\* y (units of 1/10^Digits) is x (units of 1/(Unit*Unit)) rounded to Digits
\* decimal places: no multiple of 1/10^Digits is nearer to x
NearestTo(y, x) ==
    2 * Abs(y * Unit * Unit - x * Pow10(Digits)) <= Unit * Unit

\* C16: the scores returned by the computation and the scores loaded from
\* the cache are the unrounded similarities, and the similarity of every
\* emitted relationship record is the stored score rounded to 4 decimals.
C16_RoundingAtEmission ==
    /\ (pc = "fetched" /\ topk_results.type = "dict")
          => Unrounded(topk_results.items)
    /\ (pc = "loaded" /\ data.type = "dict") => Unrounded(data.items)
    /\ pc = "sending" =>
          \A q \in 1 .. Len(relationships) :
              NearestTo(relationships[q].similarity, StoredScore(q))

\* records were emitted for stored scores that are no multiple of 1/10^4
C16_Witness ==
    /\ pc = "sending"
    /\ Len(relationships) >= 3
    /\ \A q \in 1 .. Len(relationships) :
          (StoredScore(q) * Pow10(Digits)) % (Unit * Unit) # 0

RECURSIVE Concat(_)
Concat(ss) == IF ss = <<>> THEN <<>> ELSE Head(ss) \o Concat(Tail(ss))

\* the least c with c * size >= len
Ceil(len, size) ==
    CHOOSE c \in 0 .. len : c * size >= len /\ (c = 0 \/ (c - 1) * size < len)

\* C17: the slices batch(relationships, size) yields concatenate to the list,
\* none is empty, all but the last have exactly size elements and the last
\* at most size; their number is ceil(len / size), is total_batches, and is
\* the number of upsert queries issued when the loop is over.
C17_BatchPartition ==
    pc = "sending" =>
        LET slices == Batch(relationships, emit_size)
        IN  /\ Concat(slices) = relationships
            /\ \A i \in 1 .. Len(slices) :
                  /\ Len(slices[i]) >= 1
                  /\ Len(slices[i]) <= emit_size
                  /\ i < Len(slices) => Len(slices[i]) = emit_size
            /\ Len(slices) = Ceil(Len(relationships), emit_size)
            /\ Len(slices) = total_batches
            /\ queries + Len(pending) = total_batches
            /\ pending = <<>> => queries = total_batches

\* three records were sent in batches of two: a full slice and a short one
C17_Witness ==
    /\ AllSent
    /\ Len(relationships) = 3
    /\ emit_size = 2
    /\ queries = 2

-----------------------------------------------------------------------------
(* Ties, distinct neighbours, alignment *)

\* the rows listed as neighbours in the entry of row g, in list order
NeighbourRows(g) ==
    LET tk == DictGet(ret, At(keys, g)).top_keys
    IN  [p \in 1 .. Len(tk) |-> RowOfKey(tk[p])]

\* the similarities listed in the entry of row g
NeighbourSims(g) == DictGet(ret, At(keys, g)).similarities

\* C21 (as claimed): in every neighbour list, of two neighbours with equal
\* similarity the one with the smaller row index comes first, and of the
\* rows that tie with the last similarity kept, those with the smaller row
\* index are the ones kept.
C21_TiesByIndex ==
    (Returned /\ UniqueKeyList) =>
        \A g \in Range0(n_vectors) :
            LET rows == NeighbourRows(g)
                sims == NeighbourSims(g)
            IN  /\ \A p, q \in 1 .. Len(rows) :
                      (p < q /\ sims[p] = sims[q]) => rows[p] < rows[q]
                /\ \A j \in Others(g) \ SeqRange(rows) :
                      \A p \in 1 .. Len(rows) :
                          ScoreTo(g, j) = sims[p] => rows[p] < j

\* C23: with unique keys, every neighbour list of the returned mapping names
\* exactly k rows, pairwise distinct, none of them the row of the entry; this
\* for every k from 1 to n-1.
C23_DistinctNeighbours ==
    (Returned /\ UniqueKeyList) =>
        \A g \in Range0(n_vectors) :
            LET tk == DictGet(ret, At(keys, g)).top_keys
            IN  /\ Len(tk) = k
                /\ \A p, q \in 1 .. Len(tk) : tk[p] = tk[q] => p = q
                /\ \A p \in 1 .. Len(tk) : tk[p] \in SeqRange(keys)
                /\ Cardinality(SeqRange(NeighbourRows(g))) = k
                /\ g \notin SeqRange(NeighbourRows(g))

\* a mapping was returned for three identical documents, computed one row per
\* batch, with both other documents as neighbours of each
C23_Witness ==
    /\ Returned
    /\ UniqueKeyList
    /\ n_vectors = 3
    /\ k = 2
    /\ batch_size = 1
    /\ vectors[1] = vectors[2]
    /\ vectors[2] = vectors[3]
    /\ ~IsZeroVector(vectors[1])

\* C24: with unique keys, the entry number g of the returned mapping is
\* stored under keys[g], and its similarity at every position p is the
\* similarity between row g and the row whose key is top_keys[p].
C24_ListsAligned ==
    (Returned /\ UniqueKeyList) =>
        \A g \in Range0(n_vectors) :
            /\ ret[g + 1].key = At(keys, g)
            /\ \A p \in 1 .. Len(ret[g + 1].top_keys) :
                  ret[g + 1].similarities[p]
                      = ScoreTo(g, RowOfKey(ret[g + 1].top_keys[p]))

\* a mapping was returned for three documents in three directions, computed
\* in two batches, each entry listing its two neighbours with different scores
C24_Witness ==
    /\ Returned
    /\ UniqueKeyList
    /\ n_vectors = 3
    /\ k = 2
    /\ batch_size = 2
    /\ \A g \in 1 .. 3 : ret[g].similarities[1] > ret[g].similarities[2]
    /\ ret[1].similarities # ret[2].similarities

-----------------------------------------------------------------------------
(* Purity *)

-----------------------------------------------------------------------------
(* batch_size <= 0 *)

\* C27 (as claimed): a call with batch_size <= 0 that returns, returns a
\* mapping of n entries.
C27_NoPartialResult ==
    (pc = "done" /\ batch_size <= 0) => Len(ret) = n_vectors

-----------------------------------------------------------------------------
(* The two queries of fetch_and_compute_similarities *)

\* both queries of fetch_and_compute_similarities have returned
Fetched == pc \in {"check", "normalize", "loop", "raised", "done"}

\* C25 (as claimed): once both queries have returned, there are as many keys
\* as vector rows and, for every i, vectors[i] is the embedding that was read
\* from the document with id keys[i].
C25_KeysMatchRows ==
    Fetched =>
        /\ Len(keys) = Len(vectors)
        /\ \A i \in 1 .. Len(keys) : keys[i] = origin[i]

-----------------------------------------------------------------------------
(* The result as a value object *)

\* every list of the mapping d has kk elements
FullWidth(d, kk) ==
    \A p \in 1 .. Len(d) :
        Len(d[p].top_keys) = kk /\ Len(d[p].similarities) = kk

\* C26: after save_similarities_to_pkl the mapping handed to it is the one
\* that was computed; through every emission (truncation to top_n, rounding,
\* batching) the mapping handed to save_similarities_to_neo4j stays the
\* loaded one, with all its lists k wide; and the records of every emission,
\* whatever top_n the earlier emissions had, are those of the full mapping.
C26_ResultNotMutated ==
    /\ (pc = "saved" /\ topk_results.type = "dict") =>
          topk_results.items
              = ComputeTopK(keys, vectors, vexp, k, batch_size, tie)
    /\ (pc \in {"loaded", "sending", "finished"} /\ data.type = "dict") =>
          /\ data = topk_results
          /\ FullWidth(data.items, k)
    /\ pc = "sending" =>
          relationships = PrepareRelationships(topk_results.items, top_n)

\* an emission with top_n = 1 was followed by an emission of the same data
\* with top_n = 2, which prepared two records per entry
C26_Witness ==
    /\ pc = "sending"
    /\ runs = 2
    /\ emitted.data = data
    /\ emitted.top_n = 1
    /\ top_n = 2
    /\ k = 2
    /\ Len(relationships) = 2 * Len(data.items)

-----------------------------------------------------------------------------
(* Emission against a store whose queries can fail *)

\* Faulty variant of Query: the exception of session.run leaves query()
QueryReraises(failed) ==
    [response |-> IF failed THEN "None" ELSE "records", raised |-> failed]

\* Neo4jConnection.query (xml_to_neo4j.py lines 127-145): the exception of
\* session.run is caught and printed, the session is closed in the finally
\* clause and response, still None, is returned
Query(failed) ==
    [response |-> IF failed THEN "None" ELSE "records", raised |-> FALSE]

\* the relationships already in the store when the emission starts
StoredBefore == { {}, {Edge(1, 100, 110, 1)} }

\* the values save_similarities_to_neo4j is called with: None, the empty
\* mapping, or the result of a computation over a corpus
EmitData ==
    {PyNone, PyDict(<<>>)}
    \cup {PyDict(ComputeTopK(UniqueKeys(Len(vs)), vs, 0, kk, 1, policy)) :
            vs \in Corpora \ {<<>>}, kk \in 1 .. 2, policy \in TiePolicies}

InitEmit ==
    /\ data \in EmitData
    /\ edges \in StoredBefore
    /\ emitted = [data |-> PyNone, top_n |-> 0, edges |-> edges]
    /\ top_n \in 1 .. 2
    /\ batch_size \in {1, 2, 4}
    /\ pc = "loaded"
    /\ keys = <<>>
    /\ vectors = <<>>
    /\ vexp = 0
    /\ tie = [part |-> "low_last", sort |-> "stable"]
    /\ k = 2
    /\ error = NoError
    /\ norms = <<>>
    /\ vectors_norm = <<>>
    /\ start = 0
    /\ results = <<>>
    /\ visited = <<>>
    /\ ret = None
    /\ relationships = <<>>
    /\ log = <<>>
    /\ file = Missing
    /\ topk_results = data
    /\ calls = <<>>
    /\ attempts = <<>>
    /\ store = {}
    /\ origin = <<>>
    /\ pending = <<>>
    /\ queries = 0
    /\ total_batches = 0
    /\ emit_size = 0
    /\ runs = 0

\* lines 183-185 when session.run raises: the query of this batch fails;
\* the store has applied the batch or has not
SendBatchFails ==
    /\ pc = "sending"
    /\ pending # <<>>
    /\ queries' = queries + 1
    /\ attempts' = Append(attempts, [chunk |-> Head(pending), ok |-> FALSE])
    /\ edges' \in {edges, Upsert(edges, Head(pending))}
    /\ IF Query(TRUE).raised
       THEN /\ pc' = "crashed"
            /\ error' = [type |-> "Neo4jError", msg |-> "query failed"]
            /\ log' = log
            /\ pending' = pending
       ELSE /\ pc' = pc
            /\ error' = error
            /\ log' = Append(log, LogRecord("info", "Processing batch"))
            /\ pending' = Tail(pending)
    /\ UNCHANGED <<keys, vectors, vexp, tie, k, batch_size, top_n,
                   compute_vars, file, data, topk_results, total_batches,
                   emit_size, emitted, runs, calls, store, origin>>

NextEmit == EmitStart \/ SendBatch \/ SendBatchFails \/ EmitReturn

SpecEmit == InitEmit /\ [][NextEmit]_vars

\* the chunks of the queries issued so far, in the order they were issued
Attempted == [i \in 1 .. Len(attempts) |-> attempts[i].chunk]

\* C28: while the batches are sent, the queries issued so far followed by the
\* batches still to send are the batches of the relationships in order, so
\* each batch is sent once, in order, whether or not earlier queries failed;
\* the emission never ends in an exception; and when it has returned every
\* batch was attempted, no error was logged and the last record is the
\* completion message.
C28_FailedBatchDoesNotAbort ==
    /\ pc \in {"loaded", "sending", "finished"}
    /\ error = NoError
    /\ pc = "sending" =>
          /\ Attempted \o pending = Batch(relationships, emit_size)
          /\ queries = Len(attempts)
    /\ (pc = "finished" /\ ~NotData(data)) =>
          /\ Attempted = Batch(relationships, emit_size)
          /\ Len(attempts) = total_batches
          /\ \A i \in 1 .. Len(log) : log[i].level = "info"
          /\ log[Len(log)] = LogRecord("info", "Created 'is_similar_to' relationships")

\* the first query failed, a later one succeeded, and the emission returned
C28_Witness ==
    /\ pc = "finished"
    /\ Len(attempts) >= 3
    /\ ~attempts[1].ok
    /\ attempts[2].ok
    /\ ~attempts[3].ok

-----------------------------------------------------------------------------
(* No data, no query *)

\* C29: an emission called with None or with an empty mapping returns at
\* once, the relationships of the store unchanged and no query issued;
\* after it returned, the store is as it was before the call.
C29_NoDataNoQuery ==
    /\ [][(pc = "loaded" /\ (data.type = "NoneType" \/ data.items = <<>>)) =>
            /\ pc' = "finished"
            /\ edges' = edges
            /\ queries' = 0
            /\ attempts' = <<>>
            /\ pending' = <<>>]_vars
    /\ []((pc = "finished" /\ (data.type = "NoneType" \/ data.items = <<>>)) =>
            /\ queries = 0
            /\ attempts = <<>>
            /\ edges = emitted.edges)

\* an emission of the empty mapping returned, the store holding what it held
C29_Witness ==
    /\ pc = "finished"
    /\ data = PyDict(<<>>)
    /\ edges # {}
    /\ runs = 1

-----------------------------------------------------------------------------
(* The web endpoint /api/query *)

\* longest submitted query, in tokens
MaxQueryLen == 3

\* A query is a sequence of tokens separated by blanks; Newline is the line
\* break, "//" opens a comment that runs to the end of its line.
Newline == "\n"
Tokens == {"MATCH", "match", "RETURN", "SET", "DELETE", "CALL", "apoc",
           "//", Newline}
Queries == UNION {[1 .. n -> Tokens] : n \in 1 .. MaxQueryLen}

\* str.upper() and re.IGNORECASE
Upper(t) == IF t = "match" THEN "MATCH" ELSE IF t = "apoc" THEN "APOC" ELSE t
UpperAll(q) == [i \in 1 .. Len(q) |-> Upper(q[i])]

\* re.sub(r"(?m)//.*?$", "", query): every comment is cut, its line break
\* stays
RECURSIVE SubComments(_, _)
SubComments(q, in_comment) ==
    IF q = <<>> THEN <<>>
    ELSE IF Head(q) = Newline THEN <<Newline>> \o SubComments(Tail(q), FALSE)
    ELSE IF in_comment \/ Head(q) = "//" THEN SubComments(Tail(q), TRUE)
    ELSE <<Head(q)>> \o SubComments(Tail(q), FALSE)

\* str.lstrip() and str.strip() on tokens: the white space at the ends goes
RECURSIVE LStrip(_)
LStrip(q) ==
    IF q # <<>> /\ Head(q) = Newline THEN LStrip(Tail(q)) ELSE q
RECURSIVE RStrip(_)
RStrip(q) ==
    IF q # <<>> /\ q[Len(q)] = Newline
    THEN RStrip(SubSeq(q, 1, Len(q) - 1)) ELSE q
Strip(q) == RStrip(LStrip(q))

\* re.search(r"\bCALL\s+(dbms|apoc)\b", query, re.IGNORECASE), on the query
\* as submitted
SearchCall(q) ==
    \E i \in 1 .. Len(q) :
        /\ Upper(q[i]) = "CALL"
        /\ LET rest == LStrip(SubSeq(q, i + 1, Len(q)))
           IN  rest # <<>> /\ Upper(rest[1]) \in {"APOC", "DBMS"}

\* Faulty variant of is_safe_query: every query is accepted
is_safe_query_always(query) == TRUE

\* utils_for_web.py lines 14-16
is_safe_query(query) ==
    LET stripped == UpperAll(Strip(SubComments(query, FALSE)))
    IN  /\ stripped # <<>>
        /\ stripped[1] \in {"MATCH", "WITH", "RETURN"}
        /\ ~SearchCall(query)

\* What the database makes of a query: comments and white space are
\* skipped, keywords are case-insensitive.
Clauses(q) == UpperAll(SelectSeq(SubComments(q, FALSE), LAMBDA t : t # Newline))

\* Cypher, as far as these tokens go: SET and DELETE need a MATCH before
\* them, CALL needs a procedure name, RETURN ends the query, and a query
\* ends with RETURN, an updating clause or a procedure call.
RECURSIVE WellFormed(_, _)
WellFormed(c, bound) ==
    IF c = <<>> THEN FALSE
    ELSE LET t == Head(c)
             last == Len(c) = 1
         IN  CASE t = "MATCH"  -> ~last /\ WellFormed(Tail(c), TRUE)
               [] t = "RETURN" -> last
               [] t \in {"SET", "DELETE"} ->
                      bound /\ (last \/ WellFormed(Tail(c), bound))
               [] t = "CALL"   ->
                      /\ Len(c) >= 2
                      /\ c[2] = "APOC"
                      /\ (Len(c) = 2 \/ WellFormed(Tail(Tail(c)), bound))
               [] OTHER -> FALSE

\* The graph after the clauses have run on graph G = [nodes, rels]: SET
\* rewrites the weight of every matched relationship, DETACH DELETE removes
\* the matched nodes and their relationships, a procedure of apoc removes
\* the relationships.
RECURSIVE RunClauses(_, _)
RunClauses(c, G) ==
    IF c = <<>> THEN G
    ELSE CASE Head(c) = "SET" ->
                  RunClauses(Tail(c),
                      [G EXCEPT !.rels = {[e EXCEPT !.weight = 0] : e \in G.rels}])
           [] Head(c) = "DELETE" ->
                  RunClauses(Tail(c), [nodes |-> {}, rels |-> {}])
           [] Head(c) = "APOC" ->
                  RunClauses(Tail(c), [G EXCEPT !.rels = {}])
           [] OTHER -> RunClauses(Tail(c), G)

\* the graph the web application is started on
InitWeb ==
    /\ store \in Stores \ {{}}
    /\ edges \in StoredBefore
    /\ ret = None
    /\ pc = "serving"
    /\ keys = <<>>
    /\ vectors = <<>>
    /\ vexp = 0
    /\ tie = [part |-> "low_last", sort |-> "stable"]
    /\ k = 1
    /\ batch_size = 1
    /\ top_n = 1
    /\ error = NoError
    /\ norms = <<>>
    /\ vectors_norm = <<>>
    /\ start = 0
    /\ results = <<>>
    /\ visited = <<>>
    /\ relationships = <<>>
    /\ log = <<>>
    /\ file = Missing
    /\ data = PyNone
    /\ topk_results = PyNone
    /\ emitted = [data |-> PyNone, top_n |-> 0, edges |-> edges]
    /\ calls = <<>>
    /\ attempts = <<>>
    /\ origin = <<>>
    /\ pending = <<>>
    /\ queries = 0
    /\ total_batches = 0
    /\ emit_size = 0
    /\ runs = 0

\* main.py lines 61-97: one POST /api/query. ret is what the client gets and
\* whether the handler opened a session and ran the query.
run_query ==
    /\ pc = "serving"
    /\ pc' = "answered"
    /\ \E query \in Queries, available \in BOOLEAN :
          IF ~is_safe_query(query)
          THEN /\ ret' = [query |-> query, status |-> 400,
                          detail |-> "Unsafe Cypher query detected.",
                          session |-> FALSE, ran |-> FALSE]
               /\ UNCHANGED <<store, edges>>
          ELSE IF ~available
          THEN /\ ret' = [query |-> query, status |-> 400,
                          detail |-> "The database is not available.",
                          session |-> TRUE, ran |-> FALSE]
               /\ UNCHANGED <<store, edges>>
          ELSE IF ~WellFormed(Clauses(query), FALSE)
          THEN /\ ret' = [query |-> query, status |-> 400,
                          detail |-> "Invalid syntax for submitted Cypher query",
                          session |-> TRUE, ran |-> FALSE]
               /\ UNCHANGED <<store, edges>>
          ELSE LET G == RunClauses(Clauses(query),
                                   [nodes |-> store, rels |-> edges])
               IN  /\ store' = G.nodes
                   /\ edges' = G.rels
                   /\ ret' = [query |-> query, status |-> 200,
                              detail |-> "nodes and edges",
                              session |-> TRUE, ran |-> TRUE]
    /\ UNCHANGED <<keys, vectors, vexp, tie, k, batch_size, top_n, error,
                   norms, vectors_norm, start, results, visited,
                   relationships, log, file, data, topk_results, emitted,
                   calls, attempts, origin, pending, queries, total_batches,
                   emit_size, runs>>

\* main.py line 101: the response is sent, the server waits for the next
\* request
serve_next ==
    /\ pc = "answered"
    /\ pc' = "serving"
    /\ ret' = None
    /\ UNCHANGED <<keys, vectors, vexp, tie, k, batch_size, top_n, error,
                   norms, vectors_norm, start, results, visited,
                   relationships, log, file, data, topk_results, emitted,
                   calls, attempts, origin, pending, queries, total_batches,
                   emit_size, runs, store, edges>>

NextWeb == run_query \/ serve_next

SpecWeb == InitWeb /\ [][NextWeb]_vars

\* the last request was answered
Answered == pc = "answered"

\* C30: a query is run only if is_safe_query accepted it, a rejected query
\* gets HTTP 400 and opens no session, and no request changes the nodes or
\* the relationships of the graph.
C30_AcceptedQueriesReadOnly ==
    /\ [](Answered =>
            /\ ret.ran => is_safe_query(ret.query)
            /\ ~is_safe_query(ret.query) => (ret.status = 400 /\ ~ret.session))
    /\ [][store' = store /\ edges' = edges]_vars

\* The part of C30 that holds: only accepted queries reach the database, and
\* a rejected one is answered with 400 without a session.
C30_OnlyAcceptedQueriesRun ==
    Answered =>
        /\ ret.ran => is_safe_query(ret.query)
        /\ ~is_safe_query(ret.query) => (ret.status = 400 /\ ~ret.session)

\* an accepted query has removed the nodes of the graph
C30_GraphChanged ==
    /\ Answered
    /\ ret.ran
    /\ is_safe_query(ret.query)
    /\ store = {}

====
